---- MODULE Spec2Model ----
(***************************************************************************)
(* TimeTuner solver service: the constraint-model compiler and solution    *)
(* decoder of app/solver/engine.py (TimetableSolver) with the hard         *)
(* constraints of app/solver/constraints/hard.py, the preferences of       *)
(* app/solver/constraints/soft.py and the asynchronous job endpoints of    *)
(* app/api/routes.py.                                                      *)
(*                                                                         *)
(* Spec, SoftSpec and UnreadSpec: one behaviour is one call of             *)
(* TimetableSolver.solve() on one request (Spec varies the entities and    *)
(* the fixed slots, SoftSpec the preferences, UnreadSpec the request       *)
(* fields the engine never reads).  ScoreSpec applies _extract_solution to *)
(* objective values drawn from a range no small request reaches.  JobSpec  *)
(* is the job store with run_solver_job calling solve().                   *)
(*                                                                         *)
(* The CP-SAT backend is modelled by its contract only: it answers with a  *)
(* status and, for OPTIMAL / FEASIBLE, with any 0/1 valuation of the       *)
(* decision variables that satisfies every constraint posted to the model  *)
(* (of least objective for OPTIMAL).                                       *)
(*                                                                         *)
(* Left out: the display fields of an event (batch_code, subject_code,     *)
(* faculty_name, room_code, duration, is_fixed), the metrics bundle (always *)
(* its defaults) and solve_time_seconds.  Entity ids are unique within a   *)
(* request.                                                                *)
(***************************************************************************)
EXTENDS Integers, Sequences, FiniteSets, TLC

\* ------------------------------------------------------------------ bounds
MaxDays  == 2   \* request.days is the first MaxDays values of DayEnum
MaxSlots == 2   \* slots_per_day ranges over 1..MaxSlots
MaxCpw   == 2   \* classes_per_week ranges over 1..MaxCpw
MaxSize  == 2   \* room capacities range over 1..MaxSize, batch sizes over 1..MaxSize+1
MaxDaily == 2   \* max_classes_per_day_batch ranges over 1..MaxDaily
MaxJobs  == 2   \* at most MaxJobs jobs are submitted to /solve/async
MaxObjective == 1002   \* solver.ObjectiveValue() ranges over 0..MaxObjective where it is an input

\* ------------------------------------------------------------- vocabulary
None == "None"                       \* Python's None for an Optional[str]

DayEnum == <<"Mon", "Tue", "Wed", "Thu", "Fri", "Sat">>

RoomType == {"lecture", "lab", "seminar"}

SolverStatus == {"pending", "running", "optimal", "feasible", "infeasible", "timeout", "error"}

\* the statuses CpSolver.Solve can answer with
CpStatus == {"OPTIMAL", "FEASIBLE", "INFEASIBLE", "UNKNOWN", "MODEL_INVALID"}

\* ---------------------------------------------------------------- helpers
Range(s) == {s[i] : i \in DOMAIN s}

RECURSIVE Flatten(_)
Flatten(ss) == IF ss = <<>> THEN <<>> ELSE Head(ss) \o Flatten(Tail(ss))

\* next((e for e in seq if e.id == id), None), as a list of zero or one record
Lookup(seq, id) ==
    LET I == {i \in DOMAIN seq : seq[i].id = id}
    IN  IF I = {} THEN <<>> ELSE <<seq[CHOOSE i \in I : \A j \in I : i <= j]>>

\* Python truthiness of an Optional[str]: None and "" are falsy
Truthy(s) == s # None /\ s # ""

\* ------------------------------------------------------------------ state
VARIABLES
    request,       \* the SolverRequest handed to TimetableSolver.__init__
    pc,            \* position inside solve()
    x,             \* self.x: the decision variables, as the keys of the dict in insertion order
    stats,         \* self.stats
    model,         \* the constraints posted to self.model, in posting order
    penalties,     \* self.penalties: key -> list of penalty terms
    objective,     \* the terms whose sum the model minimizes; <<>> in satisfiability mode
    backend_calls, \* how many times self.solver.Solve was invoked
    cp_status,     \* what Solve answered
    values,        \* the decision variables whose solver.Value is 1
    cp_objective,  \* solver.ObjectiveValue() after Solve
    response,      \* the SolverResponse returned by solve()
    jobs,          \* routes.py: the module-level dict jobs, job_id -> record
    tasks,         \* the background tasks added and not yet started, as (job_id, request)
    job_id,        \* the job_id argument of the run_solver_job that is executing, or None
    reply          \* what the last API handler answered

solverVars == <<request, pc, x, stats, model, penalties, objective, backend_calls,
                cp_status, values, cp_objective, response>>

apiVars == <<jobs, tasks, job_id, reply>>

vars == <<solverVars, apiVars>>

\* a key of self.x is (batch.id, subject.id, day, slot, room.id, faculty.id)
kBatch(k)   == k[1]
kSubject(k) == k[2]
kDay(k)     == k[3]
kSlot(k)    == k[4]
kRoom(k)    == k[5]
kFaculty(k) == k[6]

\* ------------------------------------------------------ engine.py helpers
get_subject(req, subject_id) == Lookup(req.subjects, subject_id)

get_faculty(req, faculty_id) == Lookup(req.faculties, faculty_id)

get_qualified_faculties(req, subject_id, assigned_id) ==
    IF Truthy(assigned_id)
    THEN get_faculty(req, assigned_id)
    ELSE SelectSeq(req.faculties, LAMBDA f : subject_id \in f.subject_ids)

\* mutant: the capacity test left out
get_suitable_rooms_any_capacity(req, batch, subject) ==
    SelectSeq(req.rooms, LAMBDA r : ~(subject.is_lab /\ r.type # "lab"))

get_suitable_rooms(req, batch, subject) ==
    SelectSeq(req.rooms, LAMBDA r :
        /\ r.capacity >= batch.size
        /\ ~(subject.is_lab /\ r.type # "lab"))

\* the keys one (batch, batch_subject) pair assigns, in the order of the four nested loops
requirement_keys(req, batch, bs) ==
    LET subj == get_subject(req, bs.subject_id)
    IN  IF subj = <<>> THEN <<>>
        ELSE
        LET subject == subj[1]
            qualified_faculties == get_qualified_faculties(req, subject.id, bs.assigned_faculty_id)
            suitable_rooms == get_suitable_rooms(req, batch, subject)
        IN  IF qualified_faculties = <<>> \/ suitable_rooms = <<>> THEN <<>>
            ELSE Flatten([di \in DOMAIN req.days |->
                 Flatten([slot \in 1..req.slots_per_day |->
                 Flatten([ri \in DOMAIN suitable_rooms |->
                         [fi \in DOMAIN qualified_faculties |->
                             <<batch.id, subject.id, req.days[di], slot,
                               suitable_rooms[ri].id, qualified_faculties[fi].id>>]])])])

\* every key assignment of _create_variables, in execution order
assigned_keys(req) ==
    Flatten([bi \in DOMAIN req.batches |->
        Flatten([si \in DOMAIN req.batches[bi].subjects |->
            requirement_keys(req, req.batches[bi], req.batches[bi].subjects[si])])])

\* a dict keeps one entry per key, at the position of the key's first assignment:
\* the keys of dict d after the assignments ks
dict_keys(d, ks) ==
    LET all == d \o ks
        first == {i \in DOMAIN all : \A j \in 1..(i - 1) : all[j] # all[i]}
    IN  [n \in 1..Cardinality(first) |->
            all[CHOOSE i \in first : Cardinality({j \in first : j <= i}) = n]]

\* --------------------------------------------------- constraints/hard.py
\* One posted linear constraint: sum(vars) <= rhs ("le") or sum(vars) == rhs ("eq").
\* model.Add(var == c) is the one-variable case.  Every adder returns the
\* constraints it posts, in posting order; its return value constraint_count
\* is their number, since every model.Add is followed by constraint_count += 1.
Le(vs, n) == [vars |-> vs, op |-> "le", rhs |-> n]
Eq(vs, n) == [vars |-> vs, op |-> "eq", rhs |-> n]

\* "if vars_at_slot: solver.model.Add(...)"
IfAny(vs, c) == IF vs # {} THEN <<c>> ELSE <<>>

\* mutant: the variables are grouped by room as well, as in the room adder
add_one_class_per_batch_slot_per_room(req, xs) ==
    Flatten([bi \in DOMAIN req.batches |->
    Flatten([ri \in DOMAIN req.rooms |->
    Flatten([di \in DOMAIN req.days |->
    Flatten([slot \in 1..req.slots_per_day |->
        LET vars_at_slot == {k \in Range(xs) : /\ kBatch(k) = req.batches[bi].id
                                               /\ kRoom(k) = req.rooms[ri].id
                                               /\ kDay(k) = req.days[di]
                                               /\ kSlot(k) = slot}
        IN  IfAny(vars_at_slot, Le(vars_at_slot, 1))])])])])

add_one_class_per_batch_slot(req, xs) ==
    Flatten([bi \in DOMAIN req.batches |->
    Flatten([di \in DOMAIN req.days |->
    Flatten([slot \in 1..req.slots_per_day |->
        LET vars_at_slot == {k \in Range(xs) : /\ kBatch(k) = req.batches[bi].id
                                               /\ kDay(k) = req.days[di]
                                               /\ kSlot(k) = slot}
        IN  IfAny(vars_at_slot, Le(vars_at_slot, 1))])])])

\* mutant: the variables are grouped by batch as well, as in the batch adder
add_one_class_per_room_slot_per_batch(req, xs) ==
    Flatten([ri \in DOMAIN req.rooms |->
    Flatten([bi \in DOMAIN req.batches |->
    Flatten([di \in DOMAIN req.days |->
    Flatten([slot \in 1..req.slots_per_day |->
        LET vars_at_slot == {k \in Range(xs) : /\ kRoom(k) = req.rooms[ri].id
                                               /\ kBatch(k) = req.batches[bi].id
                                               /\ kDay(k) = req.days[di]
                                               /\ kSlot(k) = slot}
        IN  IfAny(vars_at_slot, Le(vars_at_slot, 1))])])])])

add_one_class_per_room_slot(req, xs) ==
    Flatten([ri \in DOMAIN req.rooms |->
    Flatten([di \in DOMAIN req.days |->
    Flatten([slot \in 1..req.slots_per_day |->
        LET vars_at_slot == {k \in Range(xs) : /\ kRoom(k) = req.rooms[ri].id
                                               /\ kDay(k) = req.days[di]
                                               /\ kSlot(k) = slot}
        IN  IfAny(vars_at_slot, Le(vars_at_slot, 1))])])])

\* mutant: the slot test left out of the filter, the bound still one per slot of the day
add_one_class_per_faculty_slot_per_day(req, xs) ==
    Flatten([fi \in DOMAIN req.faculties |->
    Flatten([di \in DOMAIN req.days |->
        LET vars_at_slot == {k \in Range(xs) : /\ kFaculty(k) = req.faculties[fi].id
                                               /\ kDay(k) = req.days[di]}
        IN  IfAny(vars_at_slot, Le(vars_at_slot, req.slots_per_day))])])

add_one_class_per_faculty_slot(req, xs) ==
    Flatten([fi \in DOMAIN req.faculties |->
    Flatten([di \in DOMAIN req.days |->
    Flatten([slot \in 1..req.slots_per_day |->
        LET vars_at_slot == {k \in Range(xs) : /\ kFaculty(k) = req.faculties[fi].id
                                               /\ kDay(k) = req.days[di]
                                               /\ kSlot(k) = slot}
        IN  IfAny(vars_at_slot, Le(vars_at_slot, 1))])])])

add_classes_per_week_requirement(req, xs) ==
    Flatten([bi \in DOMAIN req.batches |->
    Flatten([si \in DOMAIN req.batches[bi].subjects |->
        LET batch_subject == req.batches[bi].subjects[si]
            subject_vars == {k \in Range(xs) : /\ kBatch(k) = req.batches[bi].id
                                              /\ kSubject(k) = batch_subject.subject_id}
        IN  IfAny(subject_vars, Eq(subject_vars, batch_subject.classes_per_week))])])

\* mutant: the slot compared with the slot after the unavailable one
add_faculty_unavailability_shifted(req, xs) ==
    Flatten([fi \in DOMAIN req.faculties |->
    Flatten([ui \in DOMAIN req.faculties[fi].unavailable_slots |->
        LET unavailable == req.faculties[fi].unavailable_slots[ui]
            blocked == SelectSeq(xs, LAMBDA k : /\ kFaculty(k) = req.faculties[fi].id
                                               /\ kDay(k) = unavailable.day
                                               /\ kSlot(k) = unavailable.slot + 1)
        IN  [i \in DOMAIN blocked |-> Eq({blocked[i]}, 0)]])])

add_faculty_unavailability(req, xs) ==
    Flatten([fi \in DOMAIN req.faculties |->
    Flatten([ui \in DOMAIN req.faculties[fi].unavailable_slots |->
        LET unavailable == req.faculties[fi].unavailable_slots[ui]
            blocked == SelectSeq(xs, LAMBDA k : /\ kFaculty(k) = req.faculties[fi].id
                                               /\ kDay(k) = unavailable.day
                                               /\ kSlot(k) = unavailable.slot)
        IN  [i \in DOMAIN blocked |-> Eq({blocked[i]}, 0)]])])

\* the constraint add_fixed_slots posts on one variable matching a fixed slot
fixed_constraint(fixed, k) ==
    IF Truthy(fixed.faculty_id) /\ kFaculty(k) # fixed.faculty_id THEN Eq({k}, 0)
    ELSE IF Truthy(fixed.room_id) /\ kRoom(k) # fixed.room_id THEN Eq({k}, 0)
    ELSE Eq({k}, 1)

add_fixed_slots(req, xs) ==
    Flatten([xi \in DOMAIN req.fixed_slots |->
        LET fixed == req.fixed_slots[xi]
            matching == SelectSeq(xs, LAMBDA k : /\ kBatch(k) = fixed.batch_id
                                                /\ kSubject(k) = fixed.subject_id
                                                /\ kDay(k) = fixed.day
                                                /\ kSlot(k) = fixed.slot)
        IN  [i \in DOMAIN matching |-> fixed_constraint(fixed, matching[i])]])

\* mutant: the ceiling posted as sum < max_classes + 2
add_max_daily_classes_per_batch_off_by_one(req, xs) ==
    Flatten([bi \in DOMAIN req.batches |->
    Flatten([di \in DOMAIN req.days |->
        LET vars_for_day == {k \in Range(xs) : /\ kBatch(k) = req.batches[bi].id
                                              /\ kDay(k) = req.days[di]}
        IN  IfAny(vars_for_day, Le(vars_for_day, req.max_classes_per_day_batch + 1))])])

add_max_daily_classes_per_batch(req, xs) ==
    Flatten([bi \in DOMAIN req.batches |->
    Flatten([di \in DOMAIN req.days |->
        LET vars_for_day == {k \in Range(xs) : /\ kBatch(k) = req.batches[bi].id
                                              /\ kDay(k) = req.days[di]}
        IN  IfAny(vars_for_day, Le(vars_for_day, req.max_classes_per_day_batch))])])

\* mutant: a model that also caps an instructor's classes a day at max_daily_classes
hard_constraints_with_faculty_daily(req, xs) ==
       add_one_class_per_batch_slot(req, xs)
    \o add_one_class_per_room_slot(req, xs)
    \o add_one_class_per_faculty_slot(req, xs)
    \o add_classes_per_week_requirement(req, xs)
    \o add_faculty_unavailability(req, xs)
    \o add_fixed_slots(req, xs)
    \o add_max_daily_classes_per_batch(req, xs)
    \o Flatten([fi \in DOMAIN req.faculties |->
       Flatten([di \in DOMAIN req.days |->
           LET vars_for_day == {k \in Range(xs) : /\ kFaculty(k) = req.faculties[fi].id
                                                 /\ kDay(k) = req.days[di]}
           IN  IfAny(vars_for_day, Le(vars_for_day, req.faculties[fi].max_daily_classes))])])

\* _add_hard_constraints: the seven adders in call order
hard_constraints(req, xs) ==
       add_one_class_per_batch_slot(req, xs)
    \o add_one_class_per_room_slot(req, xs)
    \o add_one_class_per_faculty_slot(req, xs)
    \o add_classes_per_week_requirement(req, xs)
    \o add_faculty_unavailability(req, xs)
    \o add_fixed_slots(req, xs)
    \o add_max_daily_classes_per_batch(req, xs)

\* --------------------------------------------------- constraints/soft.py
\* A penalty term is an auxiliary integer variable that its linking constraints
\* make a function of the decision variables:
\*   "all":    cost when every variable of vars is 1, else 0
\*             (penalty == weight OnlyEnforceIf(var), == 0 OnlyEnforceIf(var.Not());
\*              for two variables through the both_true flag)
\*   "excess": cost * max(0, sum(vars) - 1)
\* Every adder returns the list it appends to solver.penalties[<its key>].
All(vs, cost)    == [kind |-> "all", vars |-> vs, cost |-> cost]
Excess(vs, cost) == [kind |-> "excess", vars |-> vs, cost |-> cost]

max_preferred == 3

preferred_max == 5

add_faculty_load_balance(req, xs, weight) ==
    Flatten([fi \in DOMAIN req.faculties |->
    Flatten([di \in DOMAIN req.days |->
        LET day_vars == SelectSeq(xs, LAMBDA k : /\ kFaculty(k) = req.faculties[fi].id
                                                /\ kDay(k) = req.days[di])
        IN  [i \in 1..(Len(day_vars) - max_preferred) |->
                All({day_vars[max_preferred + i]}, weight)]])])

\* mutant: the penalty tied to the class in the earlier slot alone
add_avoid_consecutive_earlier_only(req, xs, weight) ==
    Flatten([fi \in DOMAIN req.faculties |->
    Flatten([di \in DOMAIN req.days |->
    Flatten([slot \in 1..(req.slots_per_day - 1) |->
        LET current_vars == SelectSeq(xs, LAMBDA k : /\ kFaculty(k) = req.faculties[fi].id
                                                    /\ kDay(k) = req.days[di]
                                                    /\ kSlot(k) = slot)
        IN  [ci \in DOMAIN current_vars |-> All({current_vars[ci]}, weight)]])])])

add_avoid_consecutive(req, xs, weight) ==
    Flatten([fi \in DOMAIN req.faculties |->
    Flatten([di \in DOMAIN req.days |->
    Flatten([slot \in 1..(req.slots_per_day - 1) |->
        LET current_vars == SelectSeq(xs, LAMBDA k : /\ kFaculty(k) = req.faculties[fi].id
                                                    /\ kDay(k) = req.days[di]
                                                    /\ kSlot(k) = slot)
            next_vars == SelectSeq(xs, LAMBDA k : /\ kFaculty(k) = req.faculties[fi].id
                                                 /\ kDay(k) = req.days[di]
                                                 /\ kSlot(k) = slot + 1)
        IN  Flatten([ci \in DOMAIN current_vars |->
                    [ni \in DOMAIN next_vars |->
                        All({current_vars[ci], next_vars[ni]}, weight)]])])])])

add_student_daily_limit(req, xs, weight) ==
    Flatten([bi \in DOMAIN req.batches |->
    Flatten([di \in DOMAIN req.days |->
        LET day_vars == SelectSeq(xs, LAMBDA k : /\ kBatch(k) = req.batches[bi].id
                                                /\ kDay(k) = req.days[di])
        IN  [i \in 1..(Len(day_vars) - preferred_max) |->
                All({day_vars[preferred_max + i]}, weight)]])])

\* mutant: the excess not multiplied by the weight
add_even_distribution_unweighted(req, xs, weight) ==
    Flatten([bi \in DOMAIN req.batches |->
    Flatten([si \in DOMAIN req.batches[bi].subjects |->
    Flatten([di \in DOMAIN req.days |->
        LET day_vars == {k \in Range(xs) : /\ kBatch(k) = req.batches[bi].id
                                          /\ kSubject(k) = req.batches[bi].subjects[si].subject_id
                                          /\ kDay(k) = req.days[di]}
        IN  IF Cardinality(day_vars) > 1 THEN <<Excess(day_vars, 1)>> ELSE <<>>])])])

add_even_distribution(req, xs, weight) ==
    Flatten([bi \in DOMAIN req.batches |->
    Flatten([si \in DOMAIN req.batches[bi].subjects |->
    Flatten([di \in DOMAIN req.days |->
        LET day_vars == {k \in Range(xs) : /\ kBatch(k) = req.batches[bi].id
                                          /\ kSubject(k) = req.batches[bi].subjects[si].subject_id
                                          /\ kDay(k) = req.days[di]}
        IN  IF Cardinality(day_vars) > 1 THEN <<Excess(day_vars, weight)>> ELSE <<>>])])])

\* mutant: the cost of a slot is its number times the weight
add_minimize_idle_gaps_from_one(req, xs, weight) ==
    LET late == SelectSeq(xs, LAMBDA k : kSlot(k) * weight > 0)
    IN  [i \in DOMAIN late |-> All({late[i]}, kSlot(late[i]) * weight)]

add_minimize_idle_gaps(req, xs, weight) ==
    LET late == SelectSeq(xs, LAMBDA k : (kSlot(k) - 1) * weight > 0)
    IN  [i \in DOMAIN late |-> All({late[i]}, (kSlot(late[i]) - 1) * weight)]

\* mutant: the adder called whether or not the preference is enabled
OnlyIf_ignoring_enabled(enabled, key, terms) == key :> terms

\* _add_soft_constraints: solver.penalties after the enabled adders have run
OnlyIf(enabled, key, terms) == IF enabled THEN key :> terms ELSE <<>>

soft_penalties(req, xs) ==
    LET soft_config == req.soft
    IN     OnlyIf(soft_config.faculty_load_balance.enabled, "faculty_balance",
                  add_faculty_load_balance(req, xs, soft_config.faculty_load_balance.weight))
        @@ OnlyIf(soft_config.avoid_consecutive_for_faculty.enabled, "avoid_consecutive",
                  add_avoid_consecutive(req, xs, soft_config.avoid_consecutive_for_faculty.weight))
        @@ OnlyIf(soft_config.student_daily_load_limit.enabled, "student_load",
                  add_student_daily_limit(req, xs, soft_config.student_daily_load_limit.weight))
        @@ OnlyIf(soft_config.even_distribution.enabled, "even_distribution",
                  add_even_distribution(req, xs, soft_config.even_distribution.weight))
        @@ OnlyIf(soft_config.minimize_idle_gaps.enabled, "idle_gaps",
                  add_minimize_idle_gaps(req, xs, soft_config.minimize_idle_gaps.weight))

\* the keys of solver.penalties in insertion order
PenaltyKeys == <<"faculty_balance", "avoid_consecutive", "student_load", "even_distribution", "idle_gaps">>

\* _build_objective: all_penalties
all_penalties(pens) ==
    Flatten([i \in DOMAIN PenaltyKeys |->
        IF PenaltyKeys[i] \in DOMAIN pens THEN pens[PenaltyKeys[i]] ELSE <<>>])

\* ------------------------------------------------------- the CP-SAT backend
\* The backend is a black box (ortools.sat); only its contract is modelled.
\* A valuation is the set of decision variables valued 1.
satisfies(c, A) ==
    LET n == Cardinality(A \cap c.vars)
    IN  IF c.op = "le" THEN n <= c.rhs ELSE n = c.rhs

\* adding k to A overshoots no constraint k occurs in
fits(cs, A, k) ==
    \A c \in cs : k \in c.vars => Cardinality((A \cup {k}) \cap c.vars) <= c.rhs

\* every valuation of the variables `rest` on top of A that satisfies all of cs
RECURSIVE search(_, _, _)
search(cs, rest, A) ==
    IF rest = <<>>
    THEN IF \A c \in cs : satisfies(c, A) THEN {A} ELSE {}
    ELSE search(cs, Tail(rest), A)
         \cup (IF fits(cs, A, Head(rest))
               THEN search(cs, Tail(rest), A \cup {Head(rest)})
               ELSE {})

feasible_valuations(cs, xs) == search(Range(cs), xs, {})

\* sum(ns), summed by halves to keep the recursion shallow
RECURSIVE SumSeq(_)
SumSeq(ns) ==
    IF Len(ns) = 0 THEN 0
    ELSE IF Len(ns) = 1 THEN ns[1]
    ELSE LET half == Len(ns) \div 2
         IN  SumSeq(SubSeq(ns, 1, half)) + SumSeq(SubSeq(ns, half + 1, Len(ns)))

Max(a, b) == IF a >= b THEN a ELSE b

\* the value the linking constraints give a penalty variable under valuation A
term_value(t, A) ==
    IF t.kind = "all"
    THEN IF t.vars \subseteq A THEN t.cost ELSE 0
    ELSE t.cost * Max(0, Cardinality(A \cap t.vars) - 1)

\* solver.ObjectiveValue(): 0 for a model without objective
objective_value(obj, A) == SumSeq([i \in DOMAIN obj |-> term_value(obj[i], A)])

\* the valuations an OPTIMAL answer may carry
optimal_valuations(obj, sols) ==
    LET reached == {objective_value(obj, A) : A \in sols}
        best == CHOOSE m \in reached : \A n \in reached : m <= n
    IN  {A \in sols : objective_value(obj, A) = best}

\* ------------------------------------------------------ solution decoding
event_of(k) ==
    [day |-> kDay(k), slot |-> kSlot(k), batch_id |-> kBatch(k),
     subject_id |-> kSubject(k), faculty_id |-> kFaculty(k), room_id |-> kRoom(k)]

\* _extract_solution: one event per variable valued 1, in the order of self.x
extract_events(xs, A) ==
    LET true_keys == SelectSeq(xs, LAMBDA k : k \in A)
    IN  [i \in DOMAIN true_keys |-> event_of(true_keys[i])]

\* scores are kept in thousandths: 1.0 is NORMALIZATION, objective / 1000 is objective
NORMALIZATION == 1000

\* mutant: the score without its floor at 0.0
calculate_score_unclamped(pens, ov) ==
    IF DOMAIN pens = {} \/ ov = 0 THEN NORMALIZATION ELSE NORMALIZATION - ov

\* _calculate_score
calculate_score(pens, ov) ==
    IF DOMAIN pens = {} \/ ov = 0 THEN NORMALIZATION ELSE Max(0, NORMALIZATION - ov)

\* _extract_solution; ov is solver.ObjectiveValue()
extract_solution(xs, pens, ov, A) ==
    [score |-> calculate_score(pens, ov),
     events |-> extract_events(xs, A),
     violations |-> [hard |-> 0, soft |-> IF DOMAIN pens # {} THEN ov ELSE 0]]

\* mutant: an inconclusive backend status reported as still running
status_of_inconclusive_running(st) ==
    CASE st = "OPTIMAL"    -> "optimal"
      [] st = "FEASIBLE"   -> "feasible"
      [] st = "INFEASIBLE" -> "infeasible"
      [] OTHER             -> "running"

\* the SolverStatus solve() reports for a backend status
status_of(st) ==
    CASE st = "OPTIMAL"    -> "optimal"
      [] st = "FEASIBLE"   -> "feasible"
      [] st = "INFEASIBLE" -> "infeasible"
      [] OTHER             -> "timeout"

\* ------------------------------------------------------------ the requests
Days == SubSeq(DayEnum, 1, MaxDays)

Slot(day, slot) == [day |-> day, slot |-> slot]

Faculty(id, subject_ids, unavailable_slots) ==
    [id |-> id, subject_ids |-> subject_ids, unavailable_slots |-> unavailable_slots]

Room(id, capacity, type) == [id |-> id, capacity |-> capacity, type |-> type]

Subject(id, is_lab) == [id |-> id, is_lab |-> is_lab]

BatchSubject(subject_id, classes_per_week, assigned_faculty_id) ==
    [subject_id |-> subject_id, classes_per_week |-> classes_per_week,
     assigned_faculty_id |-> assigned_faculty_id]

Batch(id, size, subjects) == [id |-> id, size |-> size, subjects |-> subjects]

FixedSlot(batch_id, subject_id, faculty_id, room_id, day, slot) ==
    [batch_id |-> batch_id, subject_id |-> subject_id, faculty_id |-> faculty_id,
     room_id |-> room_id, day |-> day, slot |-> slot]

\* Two faculties, two rooms, a lecture subject S1 and a lab subject S2, and two
\* batches: B1 takes S1, B2 takes S2.  "F9" is an id of no faculty.
FixedSlotChoices ==
    {<<>>} \cup {<<FixedSlot("B1", "S1", f, r, "Mon", 1)>> : f \in {None, "F1"}, r \in {None, "R2"}}

SoftConstraintConfig(enabled, weight) == [enabled |-> enabled, weight |-> weight]

\* the defaults of SoftConstraints
SoftDefaults ==
    [faculty_load_balance          |-> SoftConstraintConfig(TRUE, 5),
     avoid_consecutive_for_faculty |-> SoftConstraintConfig(TRUE, 5),
     student_daily_load_limit      |-> SoftConstraintConfig(TRUE, 7),
     even_distribution             |-> SoftConstraintConfig(TRUE, 4),
     minimize_idle_gaps            |-> SoftConstraintConfig(TRUE, 10)]

SoftDisabled == [p \in DOMAIN SoftDefaults |-> SoftConstraintConfig(FALSE, SoftDefaults[p].weight)]

Requests ==
    {[faculties |-> <<Faculty("F1", f1, u1), Faculty("F2", f2, <<>>)>>,
      rooms     |-> <<Room("R1", 1, "lecture"), Room("R2", MaxSize, t2)>>,
      subjects  |-> <<Subject("S1", FALSE), Subject("S2", TRUE)>>,
      batches   |-> <<Batch("B1", size, <<BatchSubject("S1", cpw, pin)>>),
                      Batch("B2", 1, <<BatchSubject("S2", 1, None)>>)>>,
      days      |-> Days,
      slots_per_day |-> sp,
      max_classes_per_day_batch |-> md,
      fixed_slots |-> fx,
      soft |-> soft] :
        f1 \in {{"S1"}, {"S1", "S2"}}, f2 \in {{}, {"S1", "S2"}},
        u1 \in {<<>>, <<Slot("Mon", 1)>>},
        t2 \in {"lecture", "lab"},
        size \in 1..(MaxSize + 1), cpw \in 1..MaxCpw, pin \in {None, "F2", "F9"},
        sp \in 1..MaxSlots, md \in 1..MaxDaily, fx \in FixedSlotChoices,
        soft \in {SoftDisabled, SoftDefaults}}

\* ------------------------------------------------------------ solve()
NoResponse == [status |-> "running", message |-> "", solutions |-> <<>>, statistics |-> <<>>]

\* TimetableSolver.__init__, up to the request
NewSolver(at) ==
    /\ pc = at
    /\ x = <<>>
    /\ stats = <<>>
    /\ model = <<>>
    /\ penalties = <<>>
    /\ objective = <<>>
    /\ backend_calls = 0
    /\ cp_status = None
    /\ values = {}
    /\ cp_objective = 0
    /\ response = NoResponse

\* what a handler answers: the HTTP status code and the body
Reply(code, body) == [code |-> code, body |-> body]

\* the job store of routes.py at import: no job, no background task, nothing answered
NoJobs ==
    /\ jobs = <<>>
    /\ tasks = {}
    /\ job_id = None
    /\ reply = Reply(0, "")

\* one call of solve() on a fresh TimetableSolver(request)
Init ==
    /\ request \in Requests
    /\ NewSolver("start")
    /\ NoJobs

\* _build_indexes and _create_variables
CreateVariables ==
    /\ pc = "start"
    /\ x' = dict_keys(<<>>, assigned_keys(request))
    /\ stats' = ("variables" :> Len(assigned_keys(request)))
    /\ pc' = "variables"
    /\ UNCHANGED <<request, model, penalties, objective, backend_calls, cp_status, values, cp_objective, response>>
    /\ UNCHANGED apiVars

\* "if not self.x: return SolverResponse(status=ERROR, ...)"
ReturnEmptyModel ==
    /\ pc = "variables"
    /\ x = <<>>
    /\ response' = [status |-> "error", message |-> "No valid class assignments possible",
                    solutions |-> <<>>, statistics |-> <<>>]
    /\ pc' = "done"
    /\ UNCHANGED <<request, x, stats, model, penalties, objective, backend_calls, cp_status, values, cp_objective>>
    /\ UNCHANGED apiVars

\* mutant: solve() without its "if not self.x" test
AddHardConstraints_unguarded ==
    /\ pc = "variables"
    /\ model' = hard_constraints(request, x)
    /\ stats' = stats @@ ("hard_constraints" :> Len(hard_constraints(request, x)))
    /\ pc' = "hard"
    /\ UNCHANGED <<request, x, penalties, objective, backend_calls, cp_status, values, cp_objective, response>>
    /\ UNCHANGED apiVars

\* _add_hard_constraints
AddHardConstraints ==
    /\ pc = "variables"
    /\ x # <<>>
    /\ model' = hard_constraints(request, x)
    /\ stats' = stats @@ ("hard_constraints" :> Len(hard_constraints(request, x)))
    /\ pc' = "hard"
    /\ UNCHANGED <<request, x, penalties, objective, backend_calls, cp_status, values, cp_objective, response>>
    /\ UNCHANGED apiVars

\* _add_soft_constraints
AddSoftConstraints ==
    /\ pc = "hard"
    /\ penalties' = soft_penalties(request, x)
    /\ pc' = "soft"
    /\ UNCHANGED <<request, x, stats, model, objective, backend_calls, cp_status, values, cp_objective, response>>
    /\ UNCHANGED apiVars

\* _build_objective and _configure_solver
BuildObjective ==
    /\ pc = "soft"
    /\ objective' = all_penalties(penalties)
    /\ pc' = "ready"
    /\ UNCHANGED <<request, x, stats, model, penalties, backend_calls, cp_status, values, cp_objective, response>>
    /\ UNCHANGED apiVars

\* status = self.solver.Solve(self.model).  OPTIMAL carries a satisfying valuation
\* of least objective (any satisfying one without objective), FEASIBLE any
\* satisfying valuation of a model with an objective, INFEASIBLE is answered only
\* when there is none; UNKNOWN and MODEL_INVALID carry no valuation.
Solve ==
    /\ pc = "ready"
    /\ backend_calls' = backend_calls + 1
    /\ LET sols == feasible_valuations(model, x)
       IN  \E st \in CpStatus :
             /\ cp_status' = st
             /\ CASE st = "OPTIMAL" -> sols # {} /\ values' \in optimal_valuations(objective, sols)
                  [] st = "FEASIBLE" -> objective # <<>> /\ values' \in sols
                  [] st = "INFEASIBLE" -> sols = {} /\ values' = {}
                  [] OTHER -> values' = {}
    /\ cp_objective' = objective_value(objective, values')
    /\ pc' = "solved"
    /\ UNCHANGED <<request, x, stats, model, penalties, objective, response>>
    /\ UNCHANGED apiVars

\* the message solve() puts into the response for a backend status
message_of(st) ==
    CASE st = "OPTIMAL"    -> "Optimal solution found"
      [] st = "FEASIBLE"   -> "Feasible solution found (may not be optimal)"
      [] st = "INFEASIBLE" -> "No feasible solution exists with current constraints"
      [] OTHER             -> "Solver returned " \o st \o " - check constraints"

\* the four branches on the backend status
Return ==
    /\ pc = "solved"
    /\ response' =
         [status |-> status_of(cp_status),
          message |-> message_of(cp_status),
          solutions |-> IF cp_status \in {"OPTIMAL", "FEASIBLE"}
                        THEN <<extract_solution(x, penalties, cp_objective, values)>>
                        ELSE <<>>,
          statistics |-> stats]
    /\ pc' = "done"
    /\ UNCHANGED <<request, x, stats, model, penalties, objective, backend_calls, cp_status, values, cp_objective>>
    /\ UNCHANGED apiVars

\* "except Exception as e": a callee inside the try block raises (the OR-Tools
\* bindings, a pydantic model, the allocator); solve() answers with status error
Raise ==
    /\ pc \in {"start", "variables", "hard", "soft", "ready", "solved"}
    /\ response' = [status |-> "error", message |-> "Solver error: str(e)",
                    solutions |-> <<>>, statistics |-> <<>>]
    /\ pc' = "done"
    /\ UNCHANGED <<request, x, stats, model, penalties, objective, backend_calls, cp_status, values, cp_objective>>
    /\ UNCHANGED apiVars

Next ==
    \/ CreateVariables
    \/ ReturnEmptyModel
    \/ AddHardConstraints
    \/ AddSoftConstraints
    \/ BuildObjective
    \/ Solve
    \/ Return
    \/ Raise

Spec == Init /\ [][Next]_vars

\* ------------------------------------------- solve() over the preferences
\* weights other than the defaults, inside the validated range 1..10
SoftAlternate ==
    [faculty_load_balance          |-> SoftConstraintConfig(TRUE, 1),
     avoid_consecutive_for_faculty |-> SoftConstraintConfig(TRUE, 2),
     student_daily_load_limit      |-> SoftConstraintConfig(TRUE, 3),
     even_distribution             |-> SoftConstraintConfig(TRUE, 10),
     minimize_idle_gaps            |-> SoftConstraintConfig(TRUE, 1)]

\* no preference, one preference or every preference enabled, at either weights
SoftConfigs ==
    {[p \in DOMAIN SoftDefaults |-> SoftConstraintConfig(p \in enabled, weights[p].weight)] :
        enabled \in {{}, DOMAIN SoftDefaults} \cup {{p} : p \in DOMAIN SoftDefaults},
        weights \in {SoftDefaults, SoftAlternate}}

\* Two lecture subjects, two rooms, F1 teaching both subjects and F2 teaching S1
\* or nothing; B1 takes S1, B2 takes S2 once a week.  Both batches fit both rooms
\* (size 1) or neither (size MaxSize + 1).
SoftRequests ==
    {[faculties |-> <<Faculty("F1", {"S1", "S2"}, <<>>), Faculty("F2", f2, <<>>)>>,
      rooms     |-> <<Room("R1", 1, "lecture"), Room("R2", MaxSize, "lecture")>>,
      subjects  |-> <<Subject("S1", FALSE), Subject("S2", FALSE)>>,
      batches   |-> <<Batch("B1", size, <<BatchSubject("S1", cpw, None)>>),
                      Batch("B2", size, <<BatchSubject("S2", 1, None)>>)>>,
      days      |-> Days,
      slots_per_day |-> sp,
      max_classes_per_day_batch |-> MaxDaily,
      fixed_slots |-> <<>>,
      soft |-> soft] :
        f2 \in {{}, {"S1"}}, size \in {1, MaxSize + 1}, cpw \in 1..MaxCpw,
        sp \in 1..MaxSlots, soft \in SoftConfigs}

SoftInit ==
    /\ request \in SoftRequests
    /\ NewSolver("start")
    /\ NoJobs

SoftSpec == SoftInit /\ [][Next]_vars

\* ------------------------------- solve() over the fields the engine never reads
\* FacultyInput.max_daily_classes / max_weekly_classes, RoomInput.unavailable_slots
\* and the four flags of HardConstraints, added to the request records
DefaultMaxDailyClasses == 4

DefaultMaxWeeklyClasses == 20

HardFlagNames ==
    {"no_consecutive_labs", "respect_faculty_unavailability",
     "respect_room_capacity", "labs_only_in_lab_rooms"}

DefaultHardFlags == [n \in HardFlagNames |-> TRUE]

\* req with the unread fields set: every instructor's two limits, every room's
\* unavailable_slots, the flags
WithUnread(req, max_daily, max_weekly, room_unavailable, flags) ==
    [faculties |-> [i \in DOMAIN req.faculties |->
                       [id |-> req.faculties[i].id,
                        subject_ids |-> req.faculties[i].subject_ids,
                        unavailable_slots |-> req.faculties[i].unavailable_slots,
                        max_daily_classes |-> max_daily,
                        max_weekly_classes |-> max_weekly]],
     rooms |-> [i \in DOMAIN req.rooms |->
                   [id |-> req.rooms[i].id,
                    capacity |-> req.rooms[i].capacity,
                    type |-> req.rooms[i].type,
                    unavailable_slots |-> room_unavailable]],
     subjects |-> req.subjects,
     batches |-> req.batches,
     days |-> req.days,
     slots_per_day |-> req.slots_per_day,
     max_classes_per_day_batch |-> req.max_classes_per_day_batch,
     fixed_slots |-> req.fixed_slots,
     soft |-> req.soft,
     hard_flags |-> flags]

\* the same request with the defaults of request.py in the unread fields
WithDefaults(req) ==
    WithUnread(req, DefaultMaxDailyClasses, DefaultMaxWeeklyClasses, <<>>, DefaultHardFlags)

\* one instructor for a lecture and a lab subject, a small lecture room and a lab;
\* the requests differ in the batch size, the lecture's classes per week, the
\* instructor's unavailability and in every unread field
UnreadRequests ==
    {WithUnread([faculties |-> <<Faculty("F1", {"S1", "S2"}, u1)>>,
                 rooms     |-> <<Room("R1", 1, "lecture"), Room("R2", MaxSize, "lab")>>,
                 subjects  |-> <<Subject("S1", FALSE), Subject("S2", TRUE)>>,
                 batches   |-> <<Batch("B1", size, <<BatchSubject("S1", cpw, None)>>),
                                 Batch("B2", size, <<BatchSubject("S2", 1, None)>>)>>,
                 days      |-> Days,
                 slots_per_day |-> MaxSlots,
                 max_classes_per_day_batch |-> MaxDaily,
                 fixed_slots |-> <<>>,
                 soft |-> SoftDisabled],
                max_daily, max_weekly, room_unavailable, flags) :
        u1 \in {<<>>, <<Slot("Mon", 1)>>}, size \in {1, MaxSize + 1}, cpw \in 1..MaxCpw,
        max_daily \in {1, DefaultMaxDailyClasses},
        max_weekly \in {1, DefaultMaxWeeklyClasses},
        room_unavailable \in {<<>>, <<Slot("Mon", 1)>>},
        flags \in [HardFlagNames -> BOOLEAN]}

UnreadInit ==
    /\ request \in UnreadRequests
    /\ NewSolver("start")
    /\ NoJobs

UnreadSpec == UnreadInit /\ [][Next]_vars

\* ------------------------------------------- _extract_solution as a function
\* What _extract_solution and _calculate_score read, drawn from bounded sets: the
\* backend has answered OPTIMAL or FEASIBLE, self.penalties is empty (no preference
\* enabled, hence no objective and ObjectiveValue() = 0) or holds a key, and
\* ObjectiveValue() is any value up to MaxObjective.  The request, the decision
\* variables and the constraints play no part and are left empty.
ScoreInit ==
    /\ request = None
    /\ pc = "solved"
    /\ x = <<>>
    /\ stats = <<>>
    /\ model = <<>>
    /\ penalties \in {<<>>} \cup {k :> <<>> : k \in Range(PenaltyKeys)}
    /\ objective = <<>>
    /\ backend_calls = 1
    /\ cp_status \in {"OPTIMAL", "FEASIBLE"}
    /\ values = {}
    /\ cp_objective \in IF DOMAIN penalties = {} THEN {0} ELSE 0..MaxObjective
    /\ response = NoResponse
    /\ NoJobs

ScoreNext == Return

ScoreSpec == ScoreInit /\ [][ScoreNext]_vars

\* ================================================================ claims
\* What the claims speak of, stated on the request and the response alone.
Returned == pc = "done"

Accepted == Returned /\ response.status \in {"optimal", "feasible"}

Solutions == Range(response.solutions)

Events(sol) == Range(sol.events)

Requirements(req) ==
    UNION {{<<batch, batch.subjects[si]>> : si \in DOMAIN batch.subjects} :
             batch \in Range(req.batches)}

IsLab(req, subject_id) == \E s \in Range(req.subjects) : s.id = subject_id /\ s.is_lab

QualifiedSet(req, bs) ==
    IF bs.assigned_faculty_id # None
    THEN {f \in Range(req.faculties) : f.id = bs.assigned_faculty_id}
    ELSE {f \in Range(req.faculties) : bs.subject_id \in f.subject_ids}

SuitableSet(req, batch, bs) ==
    {r \in Range(req.rooms) :
        r.capacity >= batch.size /\ (IsLab(req, bs.subject_id) => r.type = "lab")}

Unschedulable(req, batch, bs) ==
    QualifiedSet(req, bs) = {} \/ SuitableSet(req, batch, bs) = {}

\* the number of events of a solution that satisfy P, duplicates counted
Count(sol, P(_)) == Cardinality({i \in DOMAIN sol.events : P(sol.events[i])})

\* C1: in every solution returned with status optimal or feasible, every
\* (group, subject) requirement has exactly classes_per_week events.
C1_QuotaMet ==
    Accepted =>
        \A sol \in Solutions : \A rq \in Requirements(request) :
            Count(sol, LAMBDA e : e.batch_id = rq[1].id /\ e.subject_id = rq[2].subject_id)
                = rq[2].classes_per_week

\* an event that matches a fixed assignment
Matches(e, fixed) ==
    /\ e.batch_id = fixed.batch_id
    /\ e.subject_id = fixed.subject_id
    /\ e.day = fixed.day
    /\ e.slot = fixed.slot
    /\ (fixed.faculty_id # None => e.faculty_id = fixed.faculty_id)
    /\ (fixed.room_id # None => e.room_id = fixed.room_id)

\* C2: every solution returned with status optimal or feasible contains, for
\* every fixed assignment of the request, an event matching it.
C2_FixedHonoured ==
    Accepted =>
        \A sol \in Solutions : \A fixed \in Range(request.fixed_slots) :
            \E e \in Events(sol) : Matches(e, fixed)

\* C3: a requirement with classes_per_week >= 1 and no qualified instructor or
\* no suitable room keeps solve() from returning optimal or feasible.
C3_UnschedulableRejected ==
    (/\ Returned
     /\ \E rq \in Requirements(request) :
            rq[2].classes_per_week >= 1 /\ Unschedulable(request, rq[1], rq[2]))
        => response.status \notin {"optimal", "feasible"}

\* two events of one solution, at different positions of its event list
TwoEvents(sol, P(_, _)) ==
    \E i, j \in DOMAIN sol.events : i # j /\ P(sol.events[i], sol.events[j])

SameTime(e1, e2) == e1.day = e2.day /\ e1.slot = e2.slot

\* C4: in every returned solution no two events share (group, day, slot).
C4_GroupExclusive ==
    Returned =>
        \A sol \in Solutions :
            ~TwoEvents(sol, LAMBDA e1, e2 : e1.batch_id = e2.batch_id /\ SameTime(e1, e2))

\* a returned solution gives one group two classes
C4_Witness ==
    Accepted /\ \E sol \in Solutions :
        TwoEvents(sol, LAMBDA e1, e2 : e1.batch_id = e2.batch_id)

\* C5: in every returned solution no two events share (room, day, slot).
C5_RoomExclusive ==
    Returned =>
        \A sol \in Solutions :
            ~TwoEvents(sol, LAMBDA e1, e2 : e1.room_id = e2.room_id /\ SameTime(e1, e2))

\* a returned solution puts two groups into one room
C5_Witness ==
    Accepted /\ \E sol \in Solutions :
        TwoEvents(sol, LAMBDA e1, e2 : e1.room_id = e2.room_id /\ e1.batch_id # e2.batch_id)

\* C6: in every returned solution no two events share (instructor, day, slot).
C6_FacultyExclusive ==
    Returned =>
        \A sol \in Solutions :
            ~TwoEvents(sol, LAMBDA e1, e2 : e1.faculty_id = e2.faculty_id /\ SameTime(e1, e2))

\* a returned solution has one instructor teach two groups
C6_Witness ==
    Accepted /\ \E sol \in Solutions :
        TwoEvents(sol, LAMBDA e1, e2 : e1.faculty_id = e2.faculty_id /\ e1.batch_id # e2.batch_id)

\* C7: no returned solution has an event of an instructor at a (day, slot) the
\* instructor declares unavailable.
C7_UnavailabilityRespected ==
    Returned =>
        \A sol \in Solutions : \A e \in Events(sol) : \A f \in Range(request.faculties) :
            \A u \in Range(f.unavailable_slots) :
                ~(e.faculty_id = f.id /\ e.day = u.day /\ e.slot = u.slot)

\* an instructor with a decision variable at an unavailable slot teaches in a returned solution
C7_Witness ==
    Accepted /\ \E f \in Range(request.faculties) : \E u \in Range(f.unavailable_slots) :
        /\ \E k \in Range(x) : kFaculty(k) = f.id /\ kDay(k) = u.day /\ kSlot(k) = u.slot
        /\ \E sol \in Solutions : \E e \in Events(sol) : e.faculty_id = f.id

\* C8: in every returned solution every group has at most
\* max_classes_per_day_batch events on any one day.
C8_DailyCeiling ==
    Returned =>
        \A sol \in Solutions : \A batch \in Range(request.batches) : \A d \in Range(request.days) :
            Count(sol, LAMBDA e : e.batch_id = batch.id /\ e.day = d)
                <= request.max_classes_per_day_batch

\* a group with more classes a week than the ceiling allows a day, and room for them in one day
C8_Witness ==
    Accepted /\ \E sol \in Solutions : \E batch \in Range(request.batches) :
        /\ Count(sol, LAMBDA e : e.batch_id = batch.id) > request.max_classes_per_day_batch
        /\ request.slots_per_day > request.max_classes_per_day_batch

\* the structural conditions of C9 on one (group, subject, day, slot, room, instructor)
WellFormed(b_id, s_id, d, sl, r_id, f_id) ==
    /\ \E rq \in Requirements(request) :
        /\ rq[1].id = b_id
        /\ rq[2].subject_id = s_id
        /\ \E r \in SuitableSet(request, rq[1], rq[2]) : r.id = r_id
        /\ \E f \in QualifiedSet(request, rq[2]) : f.id = f_id
    /\ d \in Range(request.days)
    /\ sl \in 1..request.slots_per_day

\* C9: every decision variable created, and every event of a returned solution,
\* has a room of sufficient capacity (a lab room for a lab subject), the pinned
\* instructor or else one who teaches the subject, a configured day and a slot
\* in 1..slots_per_day.
C9_WellFormed ==
    /\ \A k \in Range(x) :
        WellFormed(kBatch(k), kSubject(k), kDay(k), kSlot(k), kRoom(k), kFaculty(k))
    /\ \A sol \in Solutions : \A e \in Events(sol) :
        WellFormed(e.batch_id, e.subject_id, e.day, e.slot, e.room_id, e.faculty_id)

\* a returned event of a group too large for some room, taught by a pinned
\* instructor who does not list the subject
C9_Witness ==
    Accepted /\ \E sol \in Solutions : \E e \in Events(sol) : \E rq \in Requirements(request) :
        /\ rq[1].id = e.batch_id /\ rq[2].subject_id = e.subject_id
        /\ \E r \in Range(request.rooms) : r.capacity < rq[1].size
        /\ rq[2].assigned_faculty_id = e.faculty_id
        /\ \E f \in Range(request.faculties) : f.id = e.faculty_id /\ e.subject_id \notin f.subject_ids

NoVariablePossible ==
    \A rq \in Requirements(request) : Unschedulable(request, rq[1], rq[2])

\* C10: when no decision variable can be created for any requirement, the backend
\* is never invoked and solve() ends with status infeasible or error and no solutions.
C10_EmptyModelRejected ==
    NoVariablePossible =>
        /\ backend_calls = 0
        /\ Returned => response.status \in {"infeasible", "error"} /\ response.solutions = <<>>

\* solve() has returned on a request none of whose requirements can be scheduled
C10_Witness == Returned /\ NoVariablePossible /\ request.batches # <<>>

\* ------------------------------------------------------- api/routes.py
\* The asynchronous job endpoints.  All handlers and run_solver_job are coroutines
\* of one event loop and run_solver_job never awaits, so from its first line to its
\* last no handler runs: the handlers are enabled only while no solver is at work
\* (pc = "idle"), and one set of solver variables serves every job in turn.
\* Left out: the synchronous POST /solve and POST /validate, which touch no job.
JobIds == {"job-" \o ToString(i) : i \in 1..MaxJobs}     \* str(uuid.uuid4())

\* a record of jobs; result is a list of zero or one SolverResponse (None or the
\* response), error is None while the key "error" is absent
Job(status, progress, result, error) ==
    [status |-> status, progress |-> progress, result |-> result, error |-> error]

\* one faculty, one room, one subject and one batch; the requests differ in the
\* batch size, the instructor's unavailability and the idle-gap preference
JobRequests ==
    {[faculties |-> <<Faculty("F1", {"S1"}, u1)>>,
      rooms     |-> <<Room("R1", 1, "lecture")>>,
      subjects  |-> <<Subject("S1", FALSE)>>,
      batches   |-> <<Batch("B1", size, <<BatchSubject("S1", 1, None)>>)>>,
      days      |-> <<"Mon">>,
      slots_per_day |-> MaxSlots,
      max_classes_per_day_batch |-> MaxDaily,
      fixed_slots |-> <<>>,
      soft |-> soft] :
        size \in {1, 2},
        u1 \in {<<>>, [sl \in 1..MaxSlots |-> Slot("Mon", sl)]},
        soft \in {SoftDisabled, [SoftDisabled EXCEPT !.minimize_idle_gaps.enabled = TRUE]}}

\* no request is at hand (an empty value that compares with a request record)
NoRequest == <<>>

\* the solver variables while no TimetableSolver exists
Idle == request = NoRequest /\ NewSolver("idle")

JobInit == Idle /\ NoJobs

\* POST /solve/async
solve_timetable_async ==
    /\ pc = "idle"
    /\ \E id \in JobIds \ DOMAIN jobs : \E req \in JobRequests :
         /\ jobs' = jobs @@ (id :> Job("pending", 0, <<>>, None))
         /\ tasks' = tasks \cup {<<id, req>>}
         /\ reply' = Reply(200, [job_id |-> id, status |-> "pending"])
    /\ UNCHANGED <<solverVars, job_id>>

\* run_solver_job up to TimetableSolver(request): status running, progress 10
run_solver_job_begin ==
    /\ pc = "idle"
    /\ \E t \in tasks :
         /\ jobs' = [jobs EXCEPT ![t[1]].status = "running", ![t[1]].progress = 10]
         /\ tasks' = tasks \ {t}
         /\ job_id' = t[1]
         /\ request' = t[2]
    /\ pc' = "start"
    /\ UNCHANGED <<x, stats, model, penalties, objective, backend_calls, cp_status,
                   values, cp_objective, response, reply>>

\* run_solver_job after solver.solve() has returned; the solver is dropped
run_solver_job_end ==
    /\ pc = "done"
    /\ job_id # None
    /\ jobs' = [jobs EXCEPT ![job_id].status = response.status,
                            ![job_id].progress = 100,
                            ![job_id].result = <<response>>]
    /\ job_id' = None
    /\ request' = NoRequest
    /\ pc' = "idle"
    /\ x' = <<>>
    /\ stats' = <<>>
    /\ model' = <<>>
    /\ penalties' = <<>>
    /\ objective' = <<>>
    /\ backend_calls' = 0
    /\ cp_status' = None
    /\ values' = {}
    /\ cp_objective' = 0
    /\ response' = NoResponse
    /\ UNCHANGED <<tasks, reply>>

\* run_solver_job: "except Exception as e", raised by TimetableSolver(request)
\* (solve() itself catches every Exception)
run_solver_job_except ==
    /\ pc = "start"
    /\ job_id # None
    /\ jobs' = [jobs EXCEPT ![job_id].status = "error", ![job_id].error = "str(e)"]
    /\ job_id' = None
    /\ request' = NoRequest
    /\ pc' = "idle"
    /\ UNCHANGED <<x, stats, model, penalties, objective, backend_calls, cp_status,
                   values, cp_objective, response, tasks, reply>>

\* GET /solve/status/{job_id}; SolverProgress validates status against SolverStatus
get_job_status ==
    /\ pc = "idle"
    /\ \E id \in JobIds :
         reply' = IF id \notin DOMAIN jobs THEN Reply(404, "Job not found")
                  ELSE IF jobs[id].status \notin SolverStatus THEN Reply(500, "ValidationError")
                  ELSE Reply(200, [job_id |-> id,
                                   progress_percent |-> jobs[id].progress,
                                   solutions_found |-> IF jobs[id].result # <<>> THEN 1 ELSE 0,
                                   status |-> jobs[id].status])
    /\ UNCHANGED <<solverVars, jobs, tasks, job_id>>

\* what GET /solve/result/{job_id} answers for the path parameter id
get_job_result_of(id) ==
    IF id \notin DOMAIN jobs THEN Reply(404, "Job not found")
    ELSE IF jobs[id].status \notin {"optimal", "feasible", "infeasible", "timeout", "error"}
         THEN Reply(202, "Job still running")
    ELSE IF jobs[id].result # <<>> THEN Reply(200, jobs[id].result[1])
    ELSE Reply(200, [status |-> jobs[id].status,
                     message |-> IF jobs[id].error # None THEN jobs[id].error
                                 ELSE "Job completed without result",
                     solutions |-> <<>>, statistics |-> <<>>])

\* GET /solve/result/{job_id}
get_job_result ==
    /\ pc = "idle"
    /\ \E id \in JobIds : reply' = get_job_result_of(id)
    /\ UNCHANGED <<solverVars, jobs, tasks, job_id>>

\* mutant: a cancellation that takes the job's background task off the queue
cancel_job_dropping_task ==
    /\ pc = "idle"
    /\ \E id \in JobIds :
         IF id \notin DOMAIN jobs
         THEN /\ reply' = Reply(404, "Job not found")
              /\ UNCHANGED <<jobs, tasks>>
         ELSE /\ jobs' = [jobs EXCEPT ![id].status = "cancelled"]
              /\ tasks' = {t \in tasks : t[1] # id}
              /\ reply' = Reply(200, [job_id |-> id, status |-> "cancelled"])
    /\ UNCHANGED <<solverVars, job_id>>

\* DELETE /solve/cancel/{job_id}
cancel_job ==
    /\ pc = "idle"
    /\ \E id \in JobIds :
         IF id \notin DOMAIN jobs
         THEN /\ reply' = Reply(404, "Job not found")
              /\ UNCHANGED jobs
         ELSE /\ jobs' = [jobs EXCEPT ![id].status = "cancelled"]
              /\ reply' = Reply(200, [job_id |-> id, status |-> "cancelled"])
    /\ UNCHANGED <<solverVars, tasks, job_id>>

JobNext ==
    \/ solve_timetable_async
    \/ run_solver_job_begin
    \/ run_solver_job_except
    \/ Next
    \/ run_solver_job_end
    \/ get_job_status
    \/ get_job_result
    \/ cancel_job

JobSpec == JobInit /\ [][JobNext]_vars

\* the statuses a finished solve leaves in a job
TerminalStatus == {"optimal", "feasible", "infeasible", "timeout", "error"}

\* C12: the status of a job only moves pending -> running -> one of optimal,
\* feasible, infeasible, timeout, error, and no step changes a status that is one
\* of these five.
C12_StatusMoves ==
    [][\A id \in DOMAIN jobs :
          \/ jobs'[id].status = jobs[id].status
          \/ jobs[id].status = "pending" /\ jobs'[id].status = "running"
          \/ jobs[id].status = "running" /\ jobs'[id].status \in TerminalStatus]_vars

\* C11: every returned solution has a score between 0.0 and 1.0 (0 and
\* NORMALIZATION thousandths); the score is 1.0 when no soft preference is enabled
\* or the objective value is 0, and max(0.0, 1.0 - objective / 1000) otherwise.
C11_ScoreRange ==
    Returned =>
        \A sol \in Solutions :
            /\ 0 <= sol.score /\ sol.score <= NORMALIZATION
            /\ (DOMAIN penalties = {} \/ cp_objective = 0) => sol.score = NORMALIZATION
            /\ ~(DOMAIN penalties = {} \/ cp_objective = 0) =>
                    sol.score = (IF cp_objective >= NORMALIZATION THEN 0
                                 ELSE NORMALIZATION - cp_objective)

\* a solution is returned whose objective value exceeds 1000, and its score is 0.0
C11_Witness ==
    Returned /\ cp_objective > NORMALIZATION /\ \E sol \in Solutions : sol.score = 0

\* C13: solve() never raises: there is no response until it returns, and the one
\* response it returns has a terminal status and a message; unless an exception
\* made the status error, backend OPTIMAL gives optimal, FEASIBLE feasible,
\* INFEASIBLE infeasible and UNKNOWN / MODEL_INVALID timeout; the solutions list
\* is non-empty exactly for optimal and feasible.
C13_AlwaysAResponse ==
    /\ ~Returned => response = NoResponse
    /\ Returned =>
        /\ response.status \in TerminalStatus
        /\ response.message # ""
        /\ response.solutions # <<>> <=> response.status \in {"optimal", "feasible"}
        /\ response.status # "error" =>
            /\ backend_calls = 1
            /\ cp_status = "OPTIMAL" => response.status = "optimal"
            /\ cp_status = "FEASIBLE" => response.status = "feasible"
            /\ cp_status = "INFEASIBLE" => response.status = "infeasible"
            /\ cp_status \in {"UNKNOWN", "MODEL_INVALID"} => response.status = "timeout"

\* an exception raised after the backend answered OPTIMAL: status error, no solution
C13_Witness ==
    Returned /\ cp_status = "OPTIMAL" /\ response.status = "error" /\ response.solutions = <<>>

\* what the penalty variables of solver.penalties[key] built on decision variables
\* satisfying P add up to under the returned valuation
Charged(key, P(_)) ==
    IF key \notin DOMAIN penalties THEN 0
    ELSE SumSeq([i \in DOMAIN penalties[key] |->
            IF \A k \in penalties[key][i].vars : P(k)
            THEN term_value(penalties[key][i], values) ELSE 0])

\* C14: with instructor daily-load balance enabled at weight w, the penalty charged
\* for an (instructor, day) is w * max(0, n - 3), n the number of classes the
\* instructor has that day in the returned solution.
C14_LoadBalanceByCount ==
    (Accepted /\ request.soft.faculty_load_balance.enabled) =>
        \A sol \in Solutions : \A f \in Range(request.faculties) : \A d \in Range(request.days) :
            LET n == Count(sol, LAMBDA e : e.faculty_id = f.id /\ e.day = d)
                w == request.soft.faculty_load_balance.weight
            IN  Charged("faculty_balance", LAMBDA k : kFaculty(k) = f.id /\ kDay(k) = d)
                    = w * (IF n > 3 THEN n - 3 ELSE 0)

\* C15: with the group daily-load preference enabled at weight w, the penalty
\* charged for a (group, day) is w * max(0, n - 5), n the number of classes the
\* group has that day in the returned solution.
C15_DailyLimitByCount ==
    (Accepted /\ request.soft.student_daily_load_limit.enabled) =>
        \A sol \in Solutions : \A b \in Range(request.batches) : \A d \in Range(request.days) :
            LET n == Count(sol, LAMBDA e : e.batch_id = b.id /\ e.day = d)
                w == request.soft.student_daily_load_limit.weight
            IN  Charged("student_load", LAMBDA k : kBatch(k) = b.id /\ kDay(k) = d)
                    = w * (IF n > 5 THEN n - 5 ELSE 0)

\* the hard constraints other than those of add_fixed_slots
other_hard_constraints(req, xs) ==
       add_one_class_per_batch_slot(req, xs)
    \o add_one_class_per_room_slot(req, xs)
    \o add_one_class_per_faculty_slot(req, xs)
    \o add_classes_per_week_requirement(req, xs)
    \o add_faculty_unavailability(req, xs)
    \o add_max_daily_classes_per_batch(req, xs)

\* C16: a fixed assignment that leaves the instructor or the room (or both) open
\* keeps the request solvable: when some timetable satisfying all other hard
\* constraints has a class matching the fixed assignment, the backend does not
\* find the model infeasible.
C16_FixedStaysSolvable ==
    (pc \in {"solved", "done"} /\ cp_status = "INFEASIBLE") =>
        ~ \E fixed \in Range(request.fixed_slots) :
            /\ fixed.faculty_id = None \/ fixed.room_id = None
            /\ \E A \in feasible_valuations(other_hard_constraints(request, x), x) :
                    \E k \in A : Matches(event_of(k), fixed)

\* the instructor has a class at this day and slot in the solution
Teaches(sol, f_id, d, sl) ==
    \E e \in Events(sol) : e.faculty_id = f_id /\ e.day = d /\ e.slot = sl

\* the (instructor, day, slot) triples whose slot and the next both hold a class
BackToBack(sol) ==
    {t \in {f.id : f \in Range(request.faculties)} \X Range(request.days)
                \X (1..(request.slots_per_day - 1)) :
        Teaches(sol, t[1], t[2], t[3]) /\ Teaches(sol, t[1], t[2], t[3] + 1)}

\* C17: with avoid-back-to-back enabled at weight w, the back-to-back penalty of a
\* returned solution is w times the number of (instructor, day, slot s) triples,
\* s < slots_per_day, with a class of the instructor at both s and s + 1.
C17_BackToBackCharged ==
    (Accepted /\ request.soft.avoid_consecutive_for_faculty.enabled) =>
        \A sol \in Solutions :
            Charged("avoid_consecutive", LAMBDA k : TRUE)
                = request.soft.avoid_consecutive_for_faculty.weight * Cardinality(BackToBack(sol))

\* a returned solution with an instructor in two adjacent slots, preference enabled
C17_Witness ==
    /\ Accepted /\ request.soft.avoid_consecutive_for_faculty.enabled
    /\ \E sol \in Solutions : BackToBack(sol) # {}

\* C18: with even subject distribution enabled at weight w, the penalty of a
\* (group, subject, day) is w * (occurrences - 1) when the subject occurs more
\* than once for the group that day, and 0 otherwise.
C18_EvenDistributionCharged ==
    (Accepted /\ request.soft.even_distribution.enabled) =>
        \A sol \in Solutions : \A rq \in Requirements(request) : \A d \in Range(request.days) :
            LET occurrences == Count(sol, LAMBDA e : /\ e.batch_id = rq[1].id
                                                     /\ e.subject_id = rq[2].subject_id
                                                     /\ e.day = d)
            IN  Charged("even_distribution", LAMBDA k : /\ kBatch(k) = rq[1].id
                                                       /\ kSubject(k) = rq[2].subject_id
                                                       /\ kDay(k) = d)
                    = IF occurrences > 1
                      THEN request.soft.even_distribution.weight * (occurrences - 1)
                      ELSE 0

\* a returned solution with a subject twice on one day for a group, preference enabled
C18_Witness ==
    /\ Accepted /\ request.soft.even_distribution.enabled
    /\ \E sol \in Solutions :
          TwoEvents(sol, LAMBDA e1, e2 : /\ e1.batch_id = e2.batch_id
                                         /\ e1.subject_id = e2.subject_id
                                         /\ e1.day = e2.day)

\* C19: with idle-gap minimization enabled at weight w, a true decision variable
\* at slot s adds w * (s - 1) to the objective and a false one adds 0; the
\* idle-gap total is the sum of w * (s - 1) over the events of the solution.
C19_IdleGapsCharged ==
    (Accepted /\ request.soft.minimize_idle_gaps.enabled) =>
        LET w == request.soft.minimize_idle_gaps.weight
        IN  /\ \A k \in Range(x) :
                  Charged("idle_gaps", LAMBDA v : v = k)
                      = IF k \in values THEN w * (kSlot(k) - 1) ELSE 0
            /\ \A sol \in Solutions :
                  Charged("idle_gaps", LAMBDA k : TRUE)
                      = SumSeq([i \in DOMAIN sol.events |-> w * (sol.events[i].slot - 1)])

\* a returned solution with a class after the first slot, preference enabled
C19_Witness ==
    /\ Accepted /\ request.soft.minimize_idle_gaps.enabled
    /\ \E sol \in Solutions : \E e \in Events(sol) : e.slot > 1

\* the key of solver.penalties each preference of SoftConstraints fills
PenaltyKeyOf ==
    [faculty_load_balance          |-> "faculty_balance",
     avoid_consecutive_for_faculty |-> "avoid_consecutive",
     student_daily_load_limit      |-> "student_load",
     even_distribution             |-> "even_distribution",
     minimize_idle_gaps            |-> "idle_gaps"]

EnabledPreferences == {p \in DOMAIN PenaltyKeyOf : request.soft[p].enabled}

\* C20: once _build_objective has run, a disabled preference has added no penalty
\* term and the objective holds the penalty terms of the enabled preferences and
\* nothing else; violations.soft of
\* a returned solution is the objective value, the sum of what the enabled
\* preferences charge; with no preference enabled there is no objective and
\* violations.soft is 0.
C20_ObjectiveOfEnabled ==
    (pc = "ready" \/ backend_calls = 1) =>
        /\ DOMAIN penalties = {PenaltyKeyOf[p] : p \in EnabledPreferences}
        /\ Len(objective) = SumSeq([i \in DOMAIN PenaltyKeys |->
                IF PenaltyKeys[i] \in DOMAIN penalties THEN Len(penalties[PenaltyKeys[i]]) ELSE 0])
        /\ \A i \in DOMAIN objective :
                \E p \in EnabledPreferences : objective[i] \in Range(penalties[PenaltyKeyOf[p]])
        /\ EnabledPreferences = {} => objective = <<>>
        /\ Accepted =>
              \A sol \in Solutions :
                /\ sol.violations.soft = cp_objective
                /\ sol.violations.soft
                     = SumSeq([i \in DOMAIN PenaltyKeys |->
                                 Charged(PenaltyKeys[i], LAMBDA k : TRUE)])
                /\ EnabledPreferences = {} => sol.violations.soft = 0

\* a returned solution with one preference enabled, the others disabled, and a
\* positive objective value
C20_Witness ==
    /\ Accepted
    /\ Cardinality(EnabledPreferences) = 1
    /\ \E sol \in Solutions : sol.violations.soft > 0

\* the background task of job id has not started yet
Queued(id) == \E t \in tasks : t[1] = id

\* run_solver_job has stored what solve() returned for job id
Stored(id) ==
    /\ id \in DOMAIN jobs
    /\ jobs[id].progress = 100
    /\ jobs[id].result # <<>>
    /\ jobs[id].status = jobs[id].result[1].status

\* run_solver_job has recorded that TimetableSolver(request) raised for job id
Failed(id) ==
    /\ id \in DOMAIN jobs
    /\ jobs[id].status = "error"
    /\ jobs[id].error # None

\* C21: cancel_job changes nothing but the status field of one job (the progress,
\* result and error of every job, the other jobs' statuses, the queue of background
\* tasks and the solver are unchanged), and a job cancelled before its solve has
\* finished is run all the same: whatever its status, a job is queued, being run,
\* or done; a job leaves the queue only by being started (status running); and the
\* end of its run stores the response of solve() with the response's status (or
\* the error of a failed TimetableSolver construction).
C21_CancelIsAFlag ==
    /\ [](\A id \in DOMAIN jobs :
              \/ Queued(id)
              \/ job_id = id
              \/ jobs[id].progress = 100 /\ jobs[id].result # <<>>
              \/ jobs[id].error # None)
    /\ [][/\ cancel_job =>
              /\ DOMAIN jobs' = DOMAIN jobs
              /\ \A id \in DOMAIN jobs :
                      /\ jobs'[id].progress = jobs[id].progress
                      /\ jobs'[id].result = jobs[id].result
                      /\ jobs'[id].error = jobs[id].error
              /\ Cardinality({id \in DOMAIN jobs : jobs'[id].status # jobs[id].status}) <= 1
              /\ tasks' = tasks
              /\ UNCHANGED <<solverVars, job_id>>
          /\ \A id \in DOMAIN jobs :
                  (Queued(id) /\ ~Queued(id)') => (job_id' = id /\ jobs'[id].status = "running")
          /\ \A id \in DOMAIN jobs :
                  (job_id = id /\ job_id' = None) => (Stored(id)' \/ Failed(id)')]_vars

\* the last answer of a handler is the cancellation of a job, and since then
\* run_solver_job has stored the response of solve() and its status for that job
C21_Witness ==
    \E id \in DOMAIN jobs :
        /\ reply = Reply(200, [job_id |-> id, status |-> "cancelled"])
        /\ Stored(id)
        /\ jobs[id].status \in {"optimal", "infeasible"}

\* C22: whatever was submitted, run, asked and cancelled before, get_job_result
\* answers 404 for an unknown job id, the stored response of solve() for a job
\* whose run has stored one, and 202 "Job still running" only for a job whose
\* run has not finished.
C22_ResultOfCompletedJob ==
    [][get_job_result =>
        \A id \in JobIds :
            reply' = get_job_result_of(id) =>
                /\ id \notin DOMAIN jobs => reply'.code = 404
                /\ (id \in DOMAIN jobs /\ jobs[id].result # <<>>) =>
                        reply' = Reply(200, jobs[id].result[1])
                /\ reply'.code = 202 => (id \in DOMAIN jobs /\ Queued(id))]_vars

\* C23: the decision variables, the hard constraints and so the set of timetables
\* accepted as hard-feasible are those of the request that has the defaults in
\* every instructor's max_daily_classes and max_weekly_classes, in every room's
\* unavailable_slots and in the HardConstraints flags: these fields change nothing.
C23_UnreadFieldsIgnored ==
    LET twin == WithDefaults(request)
        twin_x == dict_keys(<<>>, assigned_keys(twin))
        twin_model == hard_constraints(twin, twin_x)
    IN  /\ "variables" \in DOMAIN stats => x = twin_x
        /\ "hard_constraints" \in DOMAIN stats => model = twin_model
        /\ pc = "ready" => feasible_valuations(model, x) = feasible_valuations(twin_model, twin_x)
        /\ Accepted => values \in feasible_valuations(twin_model, twin_x)

\* a returned timetable gives an instructor more classes in one day than the
\* instructor's max_daily_classes, in a request whose unread fields are not the defaults
C23_Witness ==
    /\ Accepted
    /\ request # WithDefaults(request)
    /\ \E sol \in Solutions : \E f \in Range(request.faculties) : \E d \in Range(request.days) :
           Count(sol, LAMBDA e : e.faculty_id = f.id /\ e.day = d) > f.max_daily_classes

====
